---- MODULE Spec2Model ----
(***************************************************************************)
(* Task-and-access workflow core of the restaurant global server.          *)
(*                                                                         *)
(* The specifications share one set of variables:                          *)
(*   Spec       generate_default_data (generation/__init__.py), one action *)
(*              per commit issued through _create_model;                   *)
(*   SpecLate   a Task instance, the clock, and the two lateness           *)
(*              properties Task.is_started_late / Task.is_completed_late;  *)
(*   SpecBunch  the SubTask rows of one Task and Task.subtasks_by_priority.*)
(*   SpecGraph  SubTask rows between any two Tasks.                        *)
(*   SpecCreate    Task rows created on the deployed database;             *)
(*   SpecValidate  the validators of DefaultActor.name and User.phone;     *)
(*   SpecRoot      create_root on a database that was not reset;           *)
(*   SpecPosition  RestaurantEmployeePositionAccessLevel rows.             *)
(*                                                                         *)
(* Optional columns (Mapped[Optional[...]]) are sequences of length <= 1:  *)
(* None is <<>>, a stored value v is <<v>>.  Datetimes are naturals.       *)
(***************************************************************************)
EXTENDS Integers, Sequences, FiniteSets, TLC

VARIABLES
    pc,                 \* position of generate_default_data
    loc,                \* its local variables
    seq,                \* last value issued by each table's Identity()
    Actor,              \* table Actor: set of ids
    DefaultActor,       \* table DefaultActor
    TaskTypeGroup,      \* table TaskTypeGroup
    TaskType,           \* table TaskType
    TaskTypeGroupType,  \* table TaskTypeGroupType
    TaskTarget,         \* table TaskTarget: set of ids
    ActorAccessLevel,   \* table ActorAccessLevel
    Task,               \* table Task
    SubTask,            \* table SubTask, rows in storage order
    RestaurantEmployeePositionAccessLevel,
                        \* table RestaurantEmployeePositionAccessLevel
    self,               \* a Task instance built by the constructor
    now,                \* datetime.utcnow()
    ret                 \* what the last property read returned

vars == <<pc, loc, seq, Actor, DefaultActor, TaskTypeGroup, TaskType,
          TaskTypeGroupType, TaskTarget, ActorAccessLevel, Task, SubTask,
          RestaurantEmployeePositionAccessLevel, self, now, ret>>

dbvars == <<seq, Actor, DefaultActor, TaskTypeGroup, TaskType,
            TaskTypeGroupType, TaskTarget, ActorAccessLevel, Task,
            RestaurantEmployeePositionAccessLevel>>

(***************************************************************************)
(* Bounds of the model                                                     *)
(***************************************************************************)
MaxTime == 3

MaxSubTasks == 4

MaxPriority == 2

MaxGraphTasks == 3

MaxActors == 2

MaxNameLen == 3

MaxPhoneLen == 11

MaxPositions == 1

MaxPositionLevels == 2

(***************************************************************************)
(* Values                                                                  *)
(***************************************************************************)
None == <<>>

Some(v) == <<v>>

IsSet(x) == x # None

Val(x) == x[1]

Times == 0..MaxTime

OptTimes == {None} \cup {Some(t) : t \in Times}

NoRet == [op |-> "none"]

\* enum AccessRole, in declaration order (the member names)
AccessRole == <<"read", "create", "edit", "execute", "inspect", "delete">>

\* enum TaskStatus (the member names)
TaskStatus == {"created", "execution_started", "complited", "rejected",
               "failed", "inspected", "executed"}

\* the names _create_task_types_groups iterates over
GroupNames == <<"task operating", "order handling", "item operating",
                "user operating", "warehouse operations",
                "actor rights operating">>

\* the calls of _create_task_types, in order
TaskTypeDecl == <<
    [name |-> "task creation",       groups |-> {"task operating"}],
    [name |-> "task deletion",       groups |-> {"task operating"}],
    [name |-> "task access",         groups |-> {"task operating"}],
    [name |-> "task inspection",     groups |-> {"task operating"}],
    [name |-> "task modification",   groups |-> {"task operating"}],
    [name |-> "task execution",      groups |-> {"task operating"}],
    [name |-> "user register",       groups |-> {"user operating"}],
    [name |-> "user deletion",       groups |-> {"user operating"}],
    [name |-> "user role change",    groups |-> {"user operating"}],
    [name |-> "order creation",      groups |-> {"order handling"}],
    [name |-> "order delegation",    groups |-> {"order handling"}],
    [name |-> "order payment",       groups |-> {"order handling", "financial operations"}],
    [name |-> "order cooking",       groups |-> {"order handling"}],
    [name |-> "order packaging",     groups |-> {"order handilg"}],
    [name |-> "order delivery",      groups |-> {"order handilg"}],
    [name |-> "item register",       groups |-> {"item operating"}],
    [name |-> "item writoff",        groups |-> {"item operating", "warehouse operations"}],
    [name |-> "item order",          groups |-> {"item operating", "warehouse operations"}],
    [name |-> "item supply",         groups |-> {"item operating", "warehouse operations"}],
    [name |-> "item movement",       groups |-> {"item operating", "warehouse operations"}],
    [name |-> "grant actor rights",  groups |-> {"actor rights operating"}],
    [name |-> "revoke actor rights", groups |-> {"actor rights operating"}] >>

Tables == {"Actor", "DefaultActor", "TaskTypeGroup", "TaskType",
           "TaskTarget", "ActorAccessLevel", "Task"}

\* locals of generate_default_data and of the functions it is inside of
NoLoc == [i |-> 1, groups |-> {}, types |-> <<>>, role |-> 1,
          task_type |-> None, actor |-> None, target |-> None,
          grant_rights_type_id |-> None, at |-> None]

\* ascending sequence of the elements of a finite set of integers
RECURSIVE Ascending(_)
Ascending(S) ==
    IF S = {} THEN <<>>
    ELSE LET m == CHOOSE x \in S : \A y \in S : x <= y
         IN <<m>> \o Ascending(S \ {m})

(***************************************************************************)
(* Rows                                                                    *)
(***************************************************************************)
\* Identity(): the next value of a table's sequence
NextId(table) == seq[table] + 1

\* the grant of create_system_da with selected_target_id set to its own target
SystemAccessLevelScoped(id, actor, tid, target, role) ==
    [id |-> id, actor_id |-> actor, task_type_id |-> tid,
     task_target_id |-> target, role |-> role,
     selected_target_id |-> Some(target)]

\* ActorAccessLevel(actor_id=, task_type_id=, task_target_id=, role=) as
\* create_system_da builds it: selected_target_id is left unset
SystemAccessLevel(id, actor, tid, target, role) ==
    [id |-> id, actor_id |-> actor, task_type_id |-> tid,
     task_target_id |-> target, role |-> role,
     selected_target_id |-> None]

\* the Task of create_system_da with approved=now left out
SystemTaskUnapproved(id, type_id, target, t) ==
    [id |-> id, type_id |-> type_id, name |-> "Grant SYSTEM access rights",
     comment |-> "deployment", status |-> "executed", target_id |-> target,
     author_id |-> 1, executor_id |-> 2, inspector_id |-> 1,
     created |-> t, changed |-> FALSE,
     start_execution |-> None, execution_started |-> Some(t),
     fail_on_late_start |-> FALSE,
     complete_before |-> None, completed |-> Some(t),
     fail_on_late_complete |-> FALSE, approved |-> None]

\* the Task of create_system_da with author_id and executor_id swapped
SystemTaskAuthoredBySystem(id, type_id, target, t) ==
    [id |-> id, type_id |-> type_id, name |-> "Grant SYSTEM access rights",
     comment |-> "deployment", status |-> "executed", target_id |-> target,
     author_id |-> 2, executor_id |-> 1, inspector_id |-> 1,
     created |-> t, changed |-> FALSE,
     start_execution |-> None, execution_started |-> Some(t),
     fail_on_late_start |-> FALSE,
     complete_before |-> None, completed |-> Some(t),
     fail_on_late_complete |-> FALSE, approved |-> Some(t)]

\* Task(...) as create_system_da builds it
SystemTask(id, type_id, target, t) ==
    [id |-> id, type_id |-> type_id, name |-> "Grant SYSTEM access rights",
     comment |-> "deployment", status |-> "executed", target_id |-> target,
     author_id |-> 1, executor_id |-> 2, inspector_id |-> 1,
     created |-> t, changed |-> FALSE,
     start_execution |-> None, execution_started |-> Some(t),
     fail_on_late_start |-> FALSE,
     complete_before |-> None, completed |-> Some(t),
     fail_on_late_complete |-> FALSE, approved |-> Some(t)]

(***************************************************************************)
(* generate_default_data                                                   *)
(***************************************************************************)
\* init_models: drop_all, create_all
InitModels ==
    /\ pc = "init_models"
    /\ seq' = [t \in Tables |-> 0]
    /\ Actor' = {}
    /\ DefaultActor' = {}
    /\ TaskTypeGroup' = {}
    /\ TaskType' = {}
    /\ TaskTypeGroupType' = {}
    /\ TaskTarget' = {}
    /\ ActorAccessLevel' = {}
    /\ Task' = {}
    /\ RestaurantEmployeePositionAccessLevel' = {}
    /\ pc' = "create_root"
    /\ UNCHANGED <<loc, SubTask, self, now, ret>>

\* create_root with the test of root.id left out
CreateRootUnchecked ==
    /\ pc = "create_root"
    /\ IF 1 \in Actor
       THEN /\ pc' = "ActorExistsError"
            /\ UNCHANGED <<seq, Actor>>
       ELSE /\ seq' = [seq EXCEPT !["Actor"] = NextId("Actor")]
            /\ Actor' = Actor \cup {NextId("Actor")}
            /\ pc' = "groups"
    /\ loc' = NoLoc
    /\ UNCHANGED <<DefaultActor, TaskTypeGroup, TaskType, TaskTypeGroupType,
                   TaskTarget, ActorAccessLevel, Task, SubTask, self, now, ret,
                   RestaurantEmployeePositionAccessLevel>>

\* create_root: se.get(Actor, 1), then add, commit, refresh and the test of
\* root.id; the Actor row is committed before the id is tested
CreateRoot ==
    /\ pc = "create_root"
    /\ IF 1 \in Actor
       THEN /\ pc' = "ActorExistsError"
            /\ UNCHANGED <<seq, Actor>>
       ELSE /\ seq' = [seq EXCEPT !["Actor"] = NextId("Actor")]
            /\ Actor' = Actor \cup {NextId("Actor")}
            /\ pc' = IF NextId("Actor") # 1 THEN "ActorCreationError"
                     ELSE "groups"
    /\ loc' = NoLoc
    /\ UNCHANGED <<DefaultActor, TaskTypeGroup, TaskType, TaskTypeGroupType,
                   TaskTarget, ActorAccessLevel, Task, SubTask, self, now, ret,
                   RestaurantEmployeePositionAccessLevel>>

\* _create_task_types_groups: one pass of its loop
CreateTaskTypeGroup ==
    /\ pc = "groups"
    /\ LET name == GroupNames[loc.i]
           id == NextId("TaskTypeGroup")
       IN IF \E g \in TaskTypeGroup : g.name = name
          THEN /\ pc' = "IntegrityError"
               /\ UNCHANGED <<seq, TaskTypeGroup, loc>>
          ELSE /\ seq' = [seq EXCEPT !["TaskTypeGroup"] = id]
               /\ TaskTypeGroup' = TaskTypeGroup \cup {[id |-> id, name |-> name]}
               /\ IF loc.i = Len(GroupNames)
                  THEN pc' = "types" /\ loc' = [loc EXCEPT !.i = 1]
                  ELSE pc' = "groups" /\ loc' = [loc EXCEPT !.i = loc.i + 1]
    /\ UNCHANGED <<Actor, DefaultActor, TaskType, TaskTypeGroupType,
                   TaskTarget, ActorAccessLevel, Task, SubTask, self, now, ret,
                   RestaurantEmployeePositionAccessLevel>>

\* create_task_type: the TaskType row, then the stream of matching groups
CreateTaskType ==
    /\ pc = "types"
    /\ LET d == TaskTypeDecl[loc.i]
           id == NextId("TaskType")
       IN IF \E t \in TaskType : t.name = d.name
          THEN /\ pc' = "IntegrityError"
               /\ UNCHANGED <<seq, TaskType, loc>>
          ELSE /\ seq' = [seq EXCEPT !["TaskType"] = id]
               /\ TaskType' = TaskType \cup {[id |-> id, name |-> d.name]}
               /\ loc' = [loc EXCEPT
                            !.task_type = Some(id),
                            !.groups = {g.id : g \in {x \in TaskTypeGroup :
                                                       x.name \in d.groups}}]
               /\ pc' = "type_groups"
    /\ UNCHANGED <<Actor, DefaultActor, TaskTypeGroup, TaskTypeGroupType,
                   TaskTarget, ActorAccessLevel, Task, SubTask, self, now, ret,
                   RestaurantEmployeePositionAccessLevel>>

\* create_task_type: one row of the stream (the SELECT has no ORDER BY)
CreateTaskTypeGroupType ==
    /\ pc = "type_groups"
    /\ \E gid \in loc.groups :
         LET row == [type_id |-> Val(loc.task_type), group_id |-> gid]
         IN IF row \in TaskTypeGroupType
            THEN /\ pc' = "IntegrityError"
                 /\ UNCHANGED <<TaskTypeGroupType, loc>>
            ELSE /\ TaskTypeGroupType' = TaskTypeGroupType \cup {row}
                 /\ loc' = [loc EXCEPT !.groups = loc.groups \ {gid}]
                 /\ pc' = "type_groups"
    /\ UNCHANGED <<seq, Actor, DefaultActor, TaskTypeGroup, TaskType,
                   TaskTarget, ActorAccessLevel, Task, SubTask, self, now, ret,
                   RestaurantEmployeePositionAccessLevel>>

\* create_task_type: the stream is exhausted, refresh and return
ReturnTaskType ==
    /\ pc = "type_groups"
    /\ loc.groups = {}
    /\ IF loc.i = Len(TaskTypeDecl)
       THEN pc' = "system_actor" /\ loc' = [loc EXCEPT !.i = 1, !.task_type = None]
       ELSE pc' = "types" /\ loc' = [loc EXCEPT !.i = loc.i + 1, !.task_type = None]
    /\ UNCHANGED <<dbvars, SubTask, self, now, ret>>

\* create_system_da: select the "grant actor rights" type (.one()), create the Actor
CreateSystemActor ==
    /\ pc = "system_actor"
    /\ LET found == {t \in TaskType : t.name = "grant actor rights"}
           id == NextId("Actor")
       IN IF Cardinality(found) # 1
          THEN /\ pc' = "NoResultFound"
               /\ UNCHANGED <<seq, Actor, loc>>
          ELSE /\ seq' = [seq EXCEPT !["Actor"] = id]
               /\ Actor' = Actor \cup {id}
               /\ loc' = [loc EXCEPT
                            !.grant_rights_type_id =
                                Some((CHOOSE t \in found : TRUE).id),
                            !.actor = Some(id)]
               /\ pc' = "system_da"
    /\ UNCHANGED <<DefaultActor, TaskTypeGroup, TaskType, TaskTypeGroupType,
                   TaskTarget, ActorAccessLevel, Task, SubTask, self, now, ret,
                   RestaurantEmployeePositionAccessLevel>>

\* _create_model(se, DefaultActor(actor_id=, name=)) with the table's constraints
InsertDefaultActor(actor_id, name, next) ==
    LET id == NextId("DefaultActor")
    IN IF \/ actor_id \notin Actor
          \/ \E d \in DefaultActor : d.actor_id = actor_id \/ d.name = name
       THEN /\ pc' = "IntegrityError"
            /\ UNCHANGED <<seq, DefaultActor>>
       ELSE /\ seq' = [seq EXCEPT !["DefaultActor"] = id]
            /\ DefaultActor' = DefaultActor \cup
                 {[id |-> id, actor_id |-> actor_id, name |-> name]}
            /\ pc' = next

\* create_system_da: the SYSTEM DefaultActor, then the stream of TaskType ids
CreateSystemDA ==
    /\ pc = "system_da"
    /\ InsertDefaultActor(Val(loc.actor), "SYSTEM", "sys_loop")
    /\ loc' = [loc EXCEPT !.types = Ascending({t.id : t \in TaskType}),
                          !.role = 1]
    /\ UNCHANGED <<Actor, TaskTypeGroup, TaskType, TaskTypeGroupType,
                   TaskTarget, ActorAccessLevel, Task, SubTask, self, now, ret,
                   RestaurantEmployeePositionAccessLevel>>

\* create_system_da: the stream of TaskType ids is exhausted, return
ReturnSystemDA ==
    /\ pc = "sys_loop"
    /\ loc.types = <<>>
    /\ pc' = "test_actor"
    /\ loc' = [loc EXCEPT !.actor = None]
    /\ UNCHANGED <<dbvars, SubTask, self, now, ret>>

\* create_system_da: target = _create_model(se, TaskTarget())
CreateSystemTarget ==
    /\ pc = "sys_loop"
    /\ loc.types # <<>>
    /\ LET id == NextId("TaskTarget")
       IN /\ seq' = [seq EXCEPT !["TaskTarget"] = id]
          /\ TaskTarget' = TaskTarget \cup {id}
          /\ loc' = [loc EXCEPT !.target = Some(id)]
    /\ pc' = "sys_access"
    /\ UNCHANGED <<Actor, DefaultActor, TaskTypeGroup, TaskType,
                   TaskTypeGroupType, ActorAccessLevel, Task, SubTask,
                   self, now, ret,
                   RestaurantEmployeePositionAccessLevel>>

\* create_system_da: _create_model(se, ActorAccessLevel(...)); now = utcnow()
CreateSystemAccessLevel ==
    /\ pc = "sys_access"
    /\ LET id == NextId("ActorAccessLevel")
           al == SystemAccessLevel(id, Val(loc.actor), Head(loc.types),
                                   Val(loc.target), AccessRole[loc.role])
       IN IF \/ al.actor_id \notin Actor
             \/ al.task_target_id \notin TaskTarget
             \/ al.task_type_id \notin {t.id : t \in TaskType}
             \/ \E a \in ActorAccessLevel : a.task_target_id = al.task_target_id
             \/ (IsSet(al.selected_target_id)
                   /\ Val(al.selected_target_id) \notin TaskTarget)
          THEN /\ pc' = "IntegrityError"
               /\ UNCHANGED <<seq, ActorAccessLevel, loc>>
          ELSE /\ seq' = [seq EXCEPT !["ActorAccessLevel"] = id]
               /\ ActorAccessLevel' = ActorAccessLevel \cup {al}
               /\ loc' = [loc EXCEPT !.at = Some(now)]
               /\ pc' = "sys_task"
    /\ UNCHANGED <<Actor, DefaultActor, TaskTypeGroup, TaskType,
                   TaskTypeGroupType, TaskTarget, Task, SubTask, self, now, ret,
                   RestaurantEmployeePositionAccessLevel>>

\* create_system_da: _create_model(se, Task(...)), then the next role or type
CreateSystemTask ==
    /\ pc = "sys_task"
    /\ LET id == NextId("Task")
           tk == SystemTask(id, Val(loc.grant_rights_type_id),
                            Val(loc.target), Val(loc.at))
       IN IF \/ ~({tk.author_id, tk.executor_id, tk.inspector_id} \subseteq Actor)
             \/ tk.target_id \notin TaskTarget
             \/ tk.type_id \notin {t.id : t \in TaskType}
          THEN /\ pc' = "IntegrityError"
               /\ UNCHANGED <<seq, Task, loc>>
          ELSE /\ seq' = [seq EXCEPT !["Task"] = id]
               /\ Task' = Task \cup {tk}
               /\ pc' = "sys_loop"
               /\ loc' = IF loc.role = Len(AccessRole)
                         THEN [loc EXCEPT !.role = 1, !.types = Tail(loc.types),
                                          !.target = None, !.at = None]
                         ELSE [loc EXCEPT !.role = loc.role + 1,
                                          !.target = None, !.at = None]
    /\ UNCHANGED <<Actor, DefaultActor, TaskTypeGroup, TaskType,
                   TaskTypeGroupType, TaskTarget, ActorAccessLevel, SubTask,
                   self, now, ret,
                   RestaurantEmployeePositionAccessLevel>>

\* generate_default_data: actor = _create_model(se, Actor())
CreateTestActor ==
    /\ pc = "test_actor"
    /\ LET id == NextId("Actor")
       IN /\ seq' = [seq EXCEPT !["Actor"] = id]
          /\ Actor' = Actor \cup {id}
          /\ loc' = [loc EXCEPT !.actor = Some(id)]
    /\ pc' = "test_da"
    /\ UNCHANGED <<DefaultActor, TaskTypeGroup, TaskType, TaskTypeGroupType,
                   TaskTarget, ActorAccessLevel, Task, SubTask, self, now, ret,
                   RestaurantEmployeePositionAccessLevel>>

\* generate_default_data: _create_model(se, DefaultActor(actor_id=, name="TEST"))
CreateTestDA ==
    /\ pc = "test_da"
    /\ InsertDefaultActor(Val(loc.actor), "TEST", "done")
    /\ loc' = [loc EXCEPT !.actor = None]
    /\ UNCHANGED <<Actor, TaskTypeGroup, TaskType, TaskTypeGroupType,
                   TaskTarget, ActorAccessLevel, Task, SubTask, self, now, ret,
                   RestaurantEmployeePositionAccessLevel>>

\* the database generate_default_data is started on: empty, or holding the
\* Actors of an earlier deployment; the clock reads some time
Init ==
    /\ pc = "init_models"
    /\ loc = NoLoc
    /\ \E n \in 0..2 :
         /\ Actor = 1..n
         /\ seq = [t \in Tables |-> IF t = "Actor" THEN n ELSE 0]
    /\ DefaultActor = {}
    /\ TaskTypeGroup = {}
    /\ TaskType = {}
    /\ TaskTypeGroupType = {}
    /\ TaskTarget = {}
    /\ ActorAccessLevel = {}
    /\ Task = {}
    /\ SubTask = <<>>
    /\ RestaurantEmployeePositionAccessLevel = {}
    /\ self = None
    /\ now \in Times
    /\ ret = NoRet

Next ==
    \/ InitModels
    \/ CreateRoot
    \/ CreateTaskTypeGroup
    \/ CreateTaskType
    \/ CreateTaskTypeGroupType
    \/ ReturnTaskType
    \/ CreateSystemActor
    \/ CreateSystemDA
    \/ CreateSystemTarget
    \/ CreateSystemAccessLevel
    \/ CreateSystemTask
    \/ ReturnSystemDA
    \/ CreateTestActor
    \/ CreateTestDA

Spec == Init /\ [][Next]_vars

(***************************************************************************)
(* TaskTarget: the variant relations                                       *)
(***************************************************************************)
\* The rows that own TaskTarget t through one of its variant relations
\* (supply, salary, writeoff, customer_order, customer_payment, supply_order,
\* supply_payment, defining_access_level, discount_group, discount).  No
\* operation of the program inserts into the business tables, so only
\* defining_access_level (ActorAccessLevel.task_target_id) can be populated.
Variants(t) == {al \in ActorAccessLevel : al.task_target_id = t}

\* the Actor behind the DefaultActor named SYSTEM
SystemActors == {d.actor_id : d \in {x \in DefaultActor : x.name = "SYSTEM"}}

(***************************************************************************)
(* Task: constructor, validator and lateness properties                    *)
(***************************************************************************)
\* _check_value with "gt" in the place of "ge": passes iff v > criterion
_check_value_gt(v, criterion) == v > criterion

\* _check_value(v, k, criterion, "ge"): passes iff v >= criterion
_check_value_ge(v, criterion) == v >= criterion

\* Task._validate_dates, run by the constructor for each deadline it is given
_validate_dates(v, t) == _check_value_ge(v, t)

\* Task.is_started_late
is_started_late(tk, t) ==
    IF ~IsSet(tk.start_execution) THEN FALSE
    ELSE IF ~IsSet(tk.execution_started)
         THEN Val(tk.start_execution) <= t
         ELSE Val(tk.execution_started) <= Val(tk.start_execution)

\* is_completed_late with the comparison of its last branch made inclusive
is_completed_late_inclusive(tk, t) ==
    IF ~IsSet(tk.complete_before) THEN FALSE
    ELSE IF ~IsSet(tk.completed)
         THEN Val(tk.complete_before) <= t
         ELSE Val(tk.complete_before) <= Val(tk.completed)

\* Task.is_completed_late
is_completed_late(tk, t) ==
    IF ~IsSet(tk.complete_before) THEN FALSE
    ELSE IF ~IsSet(tk.completed)
         THEN Val(tk.complete_before) <= t
         ELSE Val(tk.complete_before) < Val(tk.completed)

\* Task(start_execution=, execution_started=, complete_before=, completed=):
\* a deadline that is given is validated against utcnow(); one that is not
\* given stays None.  A ValueError leaves no instance behind.
NewTask ==
    /\ pc = "idle"
    /\ ~IsSet(self)
    /\ \E se \in OptTimes, es \in OptTimes, cb \in OptTimes, co \in OptTimes :
         /\ IsSet(se) => _validate_dates(Val(se), now)
         /\ IsSet(cb) => _validate_dates(Val(cb), now)
         /\ self' = Some([start_execution |-> se, execution_started |-> es,
                          complete_before |-> cb, completed |-> co])
    /\ ret' = NoRet
    /\ UNCHANGED <<pc, loc, dbvars, SubTask, now>>

\* the clock advances
Tick ==
    /\ pc = "idle"
    /\ now < MaxTime
    /\ now' = now + 1
    /\ UNCHANGED <<pc, loc, dbvars, SubTask, self, ret>>

\* a read of self.is_started_late
ReadIsStartedLate ==
    /\ pc = "idle"
    /\ IsSet(self)
    /\ ret' = [op |-> "is_started_late", at |-> now,
               result |-> is_started_late(Val(self), now)]
    /\ UNCHANGED <<pc, loc, dbvars, SubTask, self, now>>

\* a read of self.is_completed_late
ReadIsCompletedLate ==
    /\ pc = "idle"
    /\ IsSet(self)
    /\ ret' = [op |-> "is_completed_late", at |-> now,
               result |-> is_completed_late(Val(self), now)]
    /\ UNCHANGED <<pc, loc, dbvars, SubTask, self, now>>

\* a running server: the tables are those of a fresh schema, no Task
\* instance has been built yet
InitIdle ==
    /\ pc = "idle"
    /\ loc = NoLoc
    /\ seq = [t \in Tables |-> 0]
    /\ Actor = {}
    /\ DefaultActor = {}
    /\ TaskTypeGroup = {}
    /\ TaskType = {}
    /\ TaskTypeGroupType = {}
    /\ TaskTarget = {}
    /\ ActorAccessLevel = {}
    /\ Task = {}
    /\ SubTask = <<>>
    /\ RestaurantEmployeePositionAccessLevel = {}
    /\ self = None
    /\ now = 0
    /\ ret = NoRet

NextLate ==
    \/ NewTask
    \/ Tick
    \/ ReadIsStartedLate
    \/ ReadIsCompletedLate

SpecLate == InitIdle /\ [][NextLate]_vars

(***************************************************************************)
(* SubTask rows and Task.subtasks_by_priority                              *)
(***************************************************************************)
\* the Task whose sub-tasks are read
ParentId == 1

\* the Tasks that can be made its children
ChildIds == (ParentId + 1)..(ParentId + MaxSubTasks)

\* relationship Task.subtasks: the SubTask rows whose parent_id is the task
subtasks(task_id) ==
    SelectSeq(SubTask, LAMBDA s : s.parent_id = task_id)

\* sorted(subs, key=attrgetter("priority")): stable, ascending
RECURSIVE InsertByPriority(_, _)
InsertByPriority(s, sortedSubs) ==
    IF sortedSubs = <<>> THEN <<s>>
    ELSE IF Head(sortedSubs).priority <= s.priority
         THEN <<Head(sortedSubs)>> \o InsertByPriority(s, Tail(sortedSubs))
         ELSE <<s>> \o sortedSubs

RECURSIVE sorted(_)
sorted(subs) ==
    IF subs = <<>> THEN <<>>
    ELSE InsertByPriority(subs[Len(subs)], sorted(SubSeq(subs, 1, Len(subs) - 1)))

\* the for loop of subtasks_by_priority; what is in level when the loop
\* ends is not appended to result
RECURSIVE BunchLoop(_, _, _)
BunchLoop(subs, result, level) ==
    IF subs = <<>> THEN result
    ELSE LET s == Head(subs)
         IN IF level = <<>> \/ level[Len(level)].priority = s.priority
            THEN BunchLoop(Tail(subs), result, Append(level, s))
            ELSE BunchLoop(Tail(subs), Append(result, level), <<s>>)

\* subtasks_by_priority with the sorted() call left out
subtasks_by_priority_unsorted(subs) == BunchLoop(subs, <<>>, <<>>)

\* Task.subtasks_by_priority, given self.subtasks
subtasks_by_priority(subs) == BunchLoop(sorted(subs), <<>>, <<>>)

\* _create_model(se, SubTask(child_id=, parent_id=, priority=)); the primary
\* key is (child_id, parent_id)
CreateSubTask ==
    /\ pc = "idle"
    /\ \E child \in ChildIds, priority \in 0..MaxPriority :
         /\ \A i \in 1..Len(SubTask) :
              ~(SubTask[i].child_id = child /\ SubTask[i].parent_id = ParentId)
         /\ SubTask' = Append(SubTask, [child_id |-> child,
                                        parent_id |-> ParentId,
                                        priority |-> priority])
    /\ ret' = NoRet
    /\ UNCHANGED <<pc, loc, dbvars, self, now>>

\* a read of subtasks_by_priority on the parent Task
ReadSubtasksByPriority ==
    /\ pc = "idle"
    /\ ret' = [op |-> "subtasks_by_priority",
               result |-> subtasks_by_priority(subtasks(ParentId))]
    /\ UNCHANGED <<pc, loc, dbvars, SubTask, self, now>>

NextBunch ==
    \/ CreateSubTask
    \/ ReadSubtasksByPriority

SpecBunch == InitIdle /\ [][NextBunch]_vars

(***************************************************************************)
(* Properties                                                              *)
(***************************************************************************)

\* C1: for a Task whose start_execution deadline T is set, is_started_late
\* is true iff execution_started is unset and now >= T, or execution_started
\* is set and execution_started > T; with start_execution unset it is false.
C1_StartedLateLaw ==
    (ret.op = "is_started_late") =>
        LET tk == Val(self)
        IN ret.result =
             IF IsSet(tk.start_execution)
             THEN \/ ~IsSet(tk.execution_started)
                     /\ ret.at >= Val(tk.start_execution)
                  \/ IsSet(tk.execution_started)
                     /\ Val(tk.execution_started) > Val(tk.start_execution)
             ELSE FALSE

\* C2: for a Task whose complete_before deadline D is set, is_completed_late
\* is true iff completed is unset and now >= D, or completed is set and
\* completed > D; with complete_before unset it is false.
C2_CompletedLateLaw ==
    (ret.op = "is_completed_late") =>
        LET tk == Val(self)
        IN ret.result =
             IF IsSet(tk.complete_before)
             THEN \/ ~IsSet(tk.completed)
                     /\ ret.at >= Val(tk.complete_before)
                  \/ IsSet(tk.completed)
                     /\ Val(tk.completed) > Val(tk.complete_before)
             ELSE FALSE

\* C2 witness: is_completed_late was read on a Task completed after its
\* deadline and returned true
C2_Witness ==
    /\ ret.op = "is_completed_late"
    /\ IsSet(Val(self).complete_before)
    /\ IsSet(Val(self).completed)
    /\ Val(Val(self).completed) > Val(Val(self).complete_before)
    /\ ret.result = TRUE

\* the SubTask children of the parent Task, as a set
Children == {SubTask[i] : i \in {k \in 1..Len(SubTask) :
                                    SubTask[k].parent_id = ParentId}}

\* C3: subtasks_by_priority returns one bunch for every distinct priority
\* among the Task's children, every child appears in exactly one bunch (and
\* once in it), and a Task with no children yields the empty sequence.
C3_EveryChildInOneBunch ==
    (ret.op = "subtasks_by_priority") =>
        /\ Len(ret.result) = Cardinality({s.priority : s \in Children})
        /\ \A s \in Children :
             Cardinality({p \in (1..Len(ret.result)) \X (1..Len(SubTask)) :
                            /\ p[2] <= Len(ret.result[p[1]])
                            /\ ret.result[p[1]][p[2]] = s}) = 1
        /\ (Children = {} => ret.result = <<>>)

\* C4: in the sequence returned by subtasks_by_priority all members of one
\* bunch have the same priority, no bunch is empty, and the priorities of
\* successive bunches are strictly increasing.
C4_BunchesOrdered ==
    (ret.op = "subtasks_by_priority") =>
        /\ \A i \in 1..Len(ret.result) :
             /\ ret.result[i] # <<>>
             /\ \A j, k \in 1..Len(ret.result[i]) :
                  ret.result[i][j].priority = ret.result[i][k].priority
        /\ \A i \in 1..(Len(ret.result) - 1) :
             ret.result[i][1].priority < ret.result[i + 1][1].priority

\* C4 witness: a result of at least two bunches, one of them with two members
C4_Witness ==
    /\ ret.op = "subtasks_by_priority"
    /\ Len(ret.result) >= 2
    /\ \E i \in 1..Len(ret.result) : Len(ret.result[i]) >= 2

\* C5: after generate_default_data completes, for every TaskType and every
\* AccessRole there is an un-scoped ActorAccessLevel (selected_target_id
\* unset) granting that role for that type to the actor of the SYSTEM
\* DefaultActor.
C5_SystemHoldsEveryRole ==
    (pc = "done") =>
        /\ SystemActors # {}
        /\ \A sys \in SystemActors :
           \A tt \in TaskType :
           \A r \in 1..Len(AccessRole) :
             \E al \in ActorAccessLevel :
               /\ al.actor_id = sys
               /\ al.task_type_id = tt.id
               /\ al.role = AccessRole[r]
               /\ ~IsSet(al.selected_target_id)

\* C5 witness: the bootstrap has completed with every declared TaskType and
\* the SYSTEM DefaultActor in place
C5_Witness ==
    /\ pc = "done"
    /\ Cardinality(TaskType) = Len(TaskTypeDecl)
    /\ SystemActors # {}
    /\ ActorAccessLevel # {}

\* C6: in every committed state every TaskTarget has exactly one of its
\* variant relations populated, also between the steps of the bootstrap.
C6_ExactlyOneVariant ==
    \A t \in TaskTarget : Cardinality(Variants(t)) = 1

(***************************************************************************)
(* Personal grants and the Tasks of the bootstrap                          *)
(***************************************************************************)
\* relationship Actor.personal_access_levels: the ActorAccessLevel rows of
\* an actor.  The position tables (RestaurantEmployeePositionAccessLevel)
\* stay empty: no operation of the program inserts into them.
personal_access_levels(actor) ==
    {al \in ActorAccessLevel : al.actor_id = actor}

\* the actor holds a personal grant of the role for the task type
HoldsGrant(actor, type_id, role) ==
    \E al \in personal_access_levels(actor) :
        al.task_type_id = type_id /\ al.role = role

\* tk has the shape of the Tasks create_system_da inserts: filed and
\* inspected by the root Actor, about the target that anchors a grant of SYSTEM
SeededBySystemDA(tk) ==
    /\ tk.name = "Grant SYSTEM access rights"
    /\ tk.author_id = 1
    /\ tk.inspector_id = 1
    /\ tk.status = "executed"
    /\ \E al \in ActorAccessLevel :
         al.task_target_id = tk.target_id /\ al.actor_id \in SystemActors

GraphTaskIds == 1..MaxGraphTasks

\* _create_model(se, SubTask(child_id=, parent_id=)): priority takes its
\* default 0; the primary key (child_id, parent_id) is the only constraint,
\* nothing compares child_id with parent_id or walks the ancestors
CreateSubTaskEdge ==
    /\ pc = "idle"
    /\ Len(SubTask) < MaxSubTasks
    /\ \E child \in GraphTaskIds, parent \in GraphTaskIds :
         /\ \A i \in 1..Len(SubTask) :
              ~(SubTask[i].child_id = child /\ SubTask[i].parent_id = parent)
         /\ SubTask' = Append(SubTask, [child_id |-> child,
                                        parent_id |-> parent,
                                        priority |-> 0])
    /\ ret' = NoRet
    /\ UNCHANGED <<pc, loc, dbvars, self, now>>

\* relationship Task.subtasks followed to the child Tasks: the children of
\* the Tasks of S
ChildTasks(S) ==
    {SubTask[i].child_id : i \in {k \in 1..Len(SubTask) :
                                     SubTask[k].parent_id \in S}}

NextGraph ==
    \/ CreateSubTaskEdge
    \/ ReadSubtasksByPriority

SpecGraph == InitIdle /\ [][NextGraph]_vars

\* the Tasks reachable from S in at most k more steps down the SubTask rows
RECURSIVE Descendants(_, _)
Descendants(S, k) ==
    IF k = 0 THEN S ELSE Descendants(S \cup ChildTasks(S), k - 1)

\* C20: after any sequence of SubTask creations the SubTask relation is
\* acyclic: no Task is its own ancestor, in particular no row has
\* parent_id = child_id (a creation that would close a cycle adds no row).
C20_SubTaskAcyclic ==
    \A t \in GraphTaskIds :
        t \notin Descendants(ChildTasks({t}), Len(SubTask))

(***************************************************************************)
(* The database generate_default_data leaves behind                        *)
(***************************************************************************)
\* the rows of _create_task_types_groups
SeededGroups ==
    {[id |-> i, name |-> GroupNames[i]] : i \in 1..Len(GroupNames)}

\* the rows of _create_task_types
SeededTypes ==
    {[id |-> i, name |-> TaskTypeDecl[i].name] : i \in 1..Len(TaskTypeDecl)}

\* the number of passes of the two loops of create_system_da
SeededGrants == Len(TaskTypeDecl) * Len(AccessRole)

\* the tables when generate_default_data has run to its end at time t
Deployed(t) ==
    /\ Actor = 1..3
    /\ DefaultActor = {[id |-> 1, actor_id |-> 2, name |-> "SYSTEM"],
                       [id |-> 2, actor_id |-> 3, name |-> "TEST"]}
    /\ TaskTypeGroup = SeededGroups
    /\ TaskType = SeededTypes
    /\ TaskTypeGroupType =
         {[type_id |-> p[1], group_id |-> p[2]] :
            p \in {q \in (1..Len(TaskTypeDecl)) \X (1..Len(GroupNames)) :
                     GroupNames[q[2]] \in TaskTypeDecl[q[1]].groups}}
    /\ TaskTarget = 1..SeededGrants
    /\ ActorAccessLevel =
         {SystemAccessLevel(k, 2, ((k - 1) \div Len(AccessRole)) + 1, k,
                            AccessRole[((k - 1) % Len(AccessRole)) + 1]) :
            k \in 1..SeededGrants}
    /\ Task = {SystemTask(k, Len(TaskTypeDecl) - 1, k, t) : k \in 1..SeededGrants}
    /\ seq = [tb \in Tables |->
                CASE tb = "Actor" -> 3
                  [] tb = "DefaultActor" -> 2
                  [] tb = "TaskTypeGroup" -> Len(GroupNames)
                  [] tb = "TaskType" -> Len(TaskTypeDecl)
                  [] OTHER -> SeededGrants]
    /\ RestaurantEmployeePositionAccessLevel = {}

(***************************************************************************)
(* Task rows created on the deployed database                              *)
(***************************************************************************)
\* Task(type_id=, name=, comment=, status=, target_id=, author_id=,
\* executor_id=, inspector_id=, ...) as the row the INSERT stores: created
\* is the keyword argument when one is given and the column default
\* utcnow() otherwise; the other columns take their defaults
TaskRow(id, created, se, cb, t) ==
    [id |-> id, type_id |-> 1, name |-> "task", comment |-> "",
     status |-> "created", target_id |-> 1,
     author_id |-> 1, executor_id |-> 2, inspector_id |-> 1,
     created |-> IF IsSet(created) THEN Val(created) ELSE t,
     changed |-> FALSE,
     start_execution |-> se, execution_started |-> None,
     fail_on_late_start |-> FALSE,
     complete_before |-> cb, completed |-> None,
     fail_on_late_complete |-> FALSE, approved |-> None]

\* _create_model(se, Task(..., [created=], [start_execution=],
\* [complete_before=])): the constructor runs _validate_dates on each
\* deadline it is given and on nothing else; then add, commit, refresh
CreateTask ==
    /\ pc = "idle"
    /\ ret = NoRet
    /\ \E created \in OptTimes, se \in OptTimes, cb \in OptTimes :
         LET args == [created |-> created, start_execution |-> se,
                      complete_before |-> cb]
             id == NextId("Task")
             tk == TaskRow(id, created, se, cb, now)
         IN IF \/ IsSet(se) /\ ~_validate_dates(Val(se), now)
               \/ IsSet(cb) /\ ~_validate_dates(Val(cb), now)
            THEN /\ ret' = [op |-> "Task", at |-> now, args |-> args,
                            raised |-> "ValueError", stored |-> None]
                 /\ UNCHANGED <<seq, Task>>
            ELSE IF \/ ~({tk.author_id, tk.executor_id, tk.inspector_id}
                           \subseteq Actor)
                    \/ tk.target_id \notin TaskTarget
                    \/ tk.type_id \notin {x.id : x \in TaskType}
                 THEN /\ ret' = [op |-> "Task", at |-> now, args |-> args,
                                 raised |-> "IntegrityError", stored |-> None]
                      /\ UNCHANGED <<seq, Task>>
                 ELSE /\ seq' = [seq EXCEPT !["Task"] = id]
                      /\ Task' = Task \cup {tk}
                      /\ ret' = [op |-> "Task", at |-> now, args |-> args,
                                 raised |-> "none", stored |-> Some(id)]
    /\ UNCHANGED <<pc, loc, Actor, DefaultActor, TaskTypeGroup, TaskType,
                   TaskTypeGroupType, TaskTarget, ActorAccessLevel, SubTask,
                   RestaurantEmployeePositionAccessLevel, self, now>>

\* a running server on the database generate_default_data left at time 0;
\* the clock reads some later time
InitCreate ==
    /\ pc = "idle"
    /\ loc = NoLoc
    /\ Deployed(0)
    /\ SubTask = <<>>
    /\ self = None
    /\ now \in Times
    /\ ret = NoRet

NextCreate == CreateTask

SpecCreate == InitCreate /\ [][NextCreate]_vars

\* C22: a Task's created is the server time at its insertion: a creation
\* that supplies its own created value is rejected, and the row of a
\* creation that succeeded holds the time of the insertion.
C22_CreatedIsInsertionTime ==
    (ret.op = "Task") =>
        /\ IsSet(ret.args.created) => ret.raised # "none"
        /\ \A tk \in Task :
             ret.stored = Some(tk.id) => tk.created = ret.at

\* C26: giving a Task a start_execution or complete_before earlier than the
\* current time raises ValueError and stores no row; deadlines at or after
\* the current time are accepted and stored unchanged, so no deadline that
\* is stored lies before the time it was set.
C26_DeadlineNotInPast ==
    (ret.op = "Task") =>
        LET past(d) == IsSet(d) /\ Val(d) < ret.at
        IN /\ (ret.raised = "ValueError") =
                (past(ret.args.start_execution) \/ past(ret.args.complete_before))
           /\ ret.raised = "ValueError" =>
                /\ ret.stored = None
                /\ Cardinality(Task) = SeededGrants
           /\ ret.raised # "ValueError" =>
                \E tk \in Task :
                   /\ ret.stored = Some(tk.id)
                   /\ tk.start_execution = ret.args.start_execution
                   /\ tk.complete_before = ret.args.complete_before
                   /\ IsSet(tk.start_execution) =>
                        Val(tk.start_execution) >= ret.at
                   /\ IsSet(tk.complete_before) =>
                        Val(tk.complete_before) >= ret.at

\* C26 witness: a Task was created with both deadlines given, start_execution
\* equal to the current time, and was stored
C26_Witness ==
    /\ ret.op = "Task"
    /\ ret.raised = "none"
    /\ ret.args.start_execution = Some(ret.at)
    /\ IsSet(ret.args.complete_before)
    /\ \E tk \in Task : ret.stored = Some(tk.id)

(***************************************************************************)
(* Validators of DefaultActor.name and User.phone                          *)
(***************************************************************************)
\* the characters names are made of: a cased pair and one without case
UpperChars == {"A"}

LowerChars == {"a"}

NameChars == UpperChars \cup LowerChars \cup {"1"}

Names == UNION {[1..n -> NameChars] : n \in 0..MaxNameLen}

\* str.isupper with the test for a cased character left out
isupper_no_lowercase(name) ==
    \A i \in 1..Len(name) : name[i] \notin LowerChars

\* str.isupper: no cased character is lower case and there is at least one
\* cased character
isupper(name) ==
    /\ \A i \in 1..Len(name) : name[i] \notin LowerChars
    /\ \E i \in 1..Len(name) : name[i] \in UpperChars \cup LowerChars

\* DefaultActor._validate_name: what it raises, and the value it returns
\* for the attribute
_validate_name(name) ==
    IF ~isupper(name)
    THEN [raised |-> "ValueError", stored |-> None]
    ELSE [raised |-> "none", stored |-> Some(name)]

\* DefaultActor(name=): the constructor sets the attribute through the
\* validator
NewDefaultActor ==
    /\ pc = "idle"
    /\ ret = NoRet
    /\ \E name \in Names :
         ret' = [op |-> "DefaultActor", arg |-> name,
                 raised |-> _validate_name(name).raised,
                 stored |-> _validate_name(name).stored]
    /\ UNCHANGED <<pc, loc, dbvars, SubTask, self, now>>

\* the digits phones are made of: the leading digit of the pattern and
\* another one
PhoneDigits == {"9", "1"}

DecimalDigits == {"0", "1", "2", "3", "4", "5", "6", "7", "8", "9"}

\* the int values of phone: a sign and the digits of the magnitude
Phones ==
    [negative : BOOLEAN,
     digits : UNION {[1..n -> PhoneDigits] : n \in 1..MaxPhoneLen}]

\* str(phone)
str(phone) ==
    (IF phone.negative THEN <<"-">> ELSE <<>>) \o phone.digits

\* config.PHONE_VALIDATION_REGEX, atom by atom ("d" is \d)
PHONE_VALIDATION_REGEX ==
    <<"9", "d", "d", "d", "d", "d", "d", "d", "d", "d">>

\* one atom of a pattern against one character
AtomMatches(atom, c) ==
    IF atom = "d" THEN c \in DecimalDigits ELSE c = atom

\* re.match(pattern, s): the pattern matches at the start of s; what
\* follows the match is not looked at
re_match(pattern, s) ==
    /\ Len(s) >= Len(pattern)
    /\ \A i \in 1..Len(pattern) : AtomMatches(pattern[i], s[i])

\* User._validate_phone: what it raises, and the value it returns for the
\* attribute
_validate_phone(phone) ==
    IF ~re_match(PHONE_VALIDATION_REGEX, str(phone))
    THEN [raised |-> "PhoneValidationError", stored |-> None]
    ELSE [raised |-> "none", stored |-> Some(phone)]

\* User(phone=): the constructor sets the attribute through the validator
NewUser ==
    /\ pc = "idle"
    /\ ret = NoRet
    /\ \E phone \in Phones :
         ret' = [op |-> "User", arg |-> phone,
                 raised |-> _validate_phone(phone).raised,
                 stored |-> _validate_phone(phone).stored]
    /\ UNCHANGED <<pc, loc, dbvars, SubTask, self, now>>

NextValidate ==
    \/ NewDefaultActor
    \/ NewUser

SpecValidate == InitIdle /\ [][NextValidate]_vars

\* C24: a DefaultActor name that is not upper case (it holds a lower-case
\* letter, or no letter at all) raises ValueError and is not stored; a name
\* that is upper case is accepted and stored unchanged.
C24_UpperCaseNameLaw ==
    (ret.op = "DefaultActor") =>
        LET letters == {i \in 1..Len(ret.arg) :
                          ret.arg[i] \in UpperChars \cup LowerChars}
            upper == /\ letters # {}
                     /\ \A i \in letters : ret.arg[i] \in UpperChars
        IN /\ ~upper => ret.raised = "ValueError" /\ ret.stored = None
           /\ upper => ret.raised = "none" /\ ret.stored = Some(ret.arg)

\* C24 witness: a name that mixes upper-case and lower-case letters has been
\* refused
C24_Witness ==
    /\ ret.op = "DefaultActor"
    /\ ret.raised = "ValueError"
    /\ \E i \in 1..Len(ret.arg) : ret.arg[i] \in LowerChars
    /\ \E i \in 1..Len(ret.arg) : ret.arg[i] \in UpperChars

\* C25: a User phone that is not exactly ten decimal digits beginning with
\* 9 raises PhoneValidationError and is not stored; a ten-digit number
\* beginning with 9 is accepted and stored unchanged.
C25_TenDigitPhoneLaw ==
    (ret.op = "User") =>
        LET ten == /\ ~ret.arg.negative
                   /\ Len(ret.arg.digits) = 10
                   /\ ret.arg.digits[1] = "9"
        IN /\ ~ten => ret.raised = "PhoneValidationError" /\ ret.stored = None
           /\ ten => ret.raised = "none" /\ ret.stored = Some(ret.arg)

(***************************************************************************)
(* create_root on a database that was not reset                            *)
(***************************************************************************)
\* create_root is about to run on a schema whose Actor table holds any rows
\* its Identity() has issued so far; the other tables are empty
InitRoot ==
    /\ pc = "create_root"
    /\ loc = NoLoc
    /\ Actor \in SUBSET (1..MaxActors)
    /\ \E last \in 0..MaxActors :
         /\ \A a \in Actor : a <= last
         /\ seq = [tb \in Tables |-> IF tb = "Actor" THEN last ELSE 0]
    /\ DefaultActor = {}
    /\ TaskTypeGroup = {}
    /\ TaskType = {}
    /\ TaskTypeGroupType = {}
    /\ TaskTarget = {}
    /\ ActorAccessLevel = {}
    /\ Task = {}
    /\ SubTask = <<>>
    /\ RestaurantEmployeePositionAccessLevel = {}
    /\ self = None
    /\ now \in Times
    /\ ret = NoRet

\* generate_default_data from its call of create_root on
NextRoot ==
    \/ CreateRoot
    \/ CreateTaskTypeGroup
    \/ CreateTaskType
    \/ CreateTaskTypeGroupType
    \/ ReturnTaskType
    \/ CreateSystemActor
    \/ CreateSystemDA
    \/ CreateSystemTarget
    \/ CreateSystemAccessLevel
    \/ CreateSystemTask
    \/ ReturnSystemDA
    \/ CreateTestActor
    \/ CreateTestDA

SpecRoot == InitRoot /\ [][NextRoot]_vars

\* C27: create_root either fails or leaves exactly one new Actor, of id 1:
\* with an Actor of id 1 present it raises ActorExistsError and the Actors
\* are unchanged; it never returns having created an Actor of another id
\* (that raises ActorCreationError).
C27_RootIsActorOne ==
    [][(pc = "create_root") =>
          /\ pc' \in {"groups", "ActorExistsError", "ActorCreationError"}
          /\ (pc' = "groups") => (1 \notin Actor /\ Actor' = Actor \cup {1})
          /\ (1 \in Actor) => (pc' = "ActorExistsError" /\ Actor' = Actor)
          /\ (Actor' \ Actor) \notin {{}, {1}} => pc' = "ActorCreationError"
      ]_vars

\* C27 witness: create_root has raised ActorCreationError on a database
\* that holds Actors but none of id 1
C27_Witness ==
    /\ pc = "ActorCreationError"
    /\ 1 \notin Actor
    /\ Cardinality(Actor) >= 2

(***************************************************************************)
(* The grants and task types of the bootstrap                              *)
(***************************************************************************)
\* C28: after generate_default_data every ActorAccessLevel of SYSTEM has a
\* TaskTarget no other grant has, and that target has exactly one Task: of
\* type "grant actor rights", in status executed, with execution_started,
\* completed and approved set, executed by the SYSTEM actor, authored and
\* inspected by the root Actor (id 1).
C28_SystemGrantHasItsTask ==
    (pc = "done") =>
        \A al \in ActorAccessLevel :
            al.actor_id \in SystemActors =>
                /\ \A other \in ActorAccessLevel :
                     other.task_target_id = al.task_target_id => other = al
                /\ Cardinality({tk \in Task :
                                  tk.target_id = al.task_target_id}) = 1
                /\ \A tk \in Task :
                     tk.target_id = al.task_target_id =>
                        /\ \E tt \in TaskType :
                             /\ tt.id = tk.type_id
                             /\ tt.name = "grant actor rights"
                        /\ tk.status = "executed"
                        /\ IsSet(tk.execution_started)
                        /\ IsSet(tk.completed)
                        /\ IsSet(tk.approved)
                        /\ tk.executor_id \in SystemActors
                        /\ tk.author_id = 1
                        /\ tk.inspector_id = 1

\* C28 witness: the bootstrap has completed and SYSTEM holds a grant for
\* each role of each task type, each with a Task about its target
C28_Witness ==
    /\ pc = "done"
    /\ Cardinality({al \in ActorAccessLevel : al.actor_id \in SystemActors})
         = SeededGrants
    /\ \A al \in ActorAccessLevel :
         \E tk \in Task : tk.target_id = al.task_target_id

\* C30: create_task_type creates one TaskType and makes it a member of
\* every group named in groups_names, so after generate_default_data every
\* declared TaskType is a member of each TaskTypeGroup it was declared with
\* and of at least one group.
C30_TypeInEveryDeclaredGroup ==
    (pc = "done") =>
        \A i \in 1..Len(TaskTypeDecl) :
            /\ Cardinality({tt \in TaskType :
                              tt.name = TaskTypeDecl[i].name}) = 1
            /\ \A tt \in TaskType :
                 tt.name = TaskTypeDecl[i].name =>
                    /\ \A name \in TaskTypeDecl[i].groups :
                         \E g \in TaskTypeGroup :
                            /\ g.name = name
                            /\ [type_id |-> tt.id, group_id |-> g.id]
                                 \in TaskTypeGroupType
                    /\ \E m \in TaskTypeGroupType : m.type_id = tt.id

(***************************************************************************)
(* RestaurantEmployeePositionAccessLevel rows                              *)
(***************************************************************************)
\* the rows of RestaurantEmployeePosition a grant can refer to
PositionIds == 1..MaxPositions

\* the primary key with role made a part of it
PositionAccessLevelKeyWithRole(row) ==
    <<row.position_id, row.task_type_group_id, row.role>>

\* PrimaryKeyConstraint(position_id, task_type_group_id)
PositionAccessLevelKey(row) == <<row.position_id, row.task_type_group_id>>

\* _create_model(se, RestaurantEmployeePositionAccessLevel(position_id=,
\* task_type_group_id=, role=)): the INSERT fails on a primary key that is
\* already there
CreatePositionAccessLevel ==
    /\ pc = "idle"
    /\ Cardinality(RestaurantEmployeePositionAccessLevel) < MaxPositionLevels
    /\ \E position \in PositionIds, group \in TaskTypeGroup,
          r \in 1..Len(AccessRole) :
         LET row == [position_id |-> position,
                     task_type_group_id |-> group.id,
                     role |-> AccessRole[r]]
         IN IF \E x \in RestaurantEmployeePositionAccessLevel :
                  PositionAccessLevelKey(x) = PositionAccessLevelKey(row)
            THEN /\ ret' = [op |-> "RestaurantEmployeePositionAccessLevel",
                            row |-> row, raised |-> "IntegrityError"]
                 /\ UNCHANGED RestaurantEmployeePositionAccessLevel
            ELSE /\ ret' = [op |-> "RestaurantEmployeePositionAccessLevel",
                            row |-> row, raised |-> "none"]
                 /\ RestaurantEmployeePositionAccessLevel' =
                      RestaurantEmployeePositionAccessLevel \cup {row}
    /\ UNCHANGED <<pc, loc, seq, Actor, DefaultActor, TaskTypeGroup, TaskType,
                   TaskTypeGroupType, TaskTarget, ActorAccessLevel, Task,
                   SubTask, self, now>>

\* a running server on the schema as _create_task_types_groups leaves it:
\* the task type groups exist, nothing else does
InitPosition ==
    /\ pc = "idle"
    /\ loc = NoLoc
    /\ seq = [tb \in Tables |->
                IF tb = "TaskTypeGroup" THEN Len(GroupNames) ELSE 0]
    /\ Actor = {}
    /\ DefaultActor = {}
    /\ TaskTypeGroup = SeededGroups
    /\ TaskType = {}
    /\ TaskTypeGroupType = {}
    /\ TaskTarget = {}
    /\ ActorAccessLevel = {}
    /\ Task = {}
    /\ SubTask = <<>>
    /\ RestaurantEmployeePositionAccessLevel = {}
    /\ self = None
    /\ now = 0
    /\ ret = NoRet

NextPosition == CreatePositionAccessLevel

SpecPosition == InitPosition /\ [][NextPosition]_vars

\* C29: for every position and every TaskTypeGroup there is at most one
\* RestaurantEmployeePositionAccessLevel; adding a second grant for the
\* same (position, task_type_group) with a different role is rejected and
\* the grant that is there stays as it is.
C29_OneRolePerPositionAndGroup ==
    /\ \A a, b \in RestaurantEmployeePositionAccessLevel :
         (a.position_id = b.position_id
            /\ a.task_type_group_id = b.task_type_group_id) => a = b
    /\ (ret.op = "RestaurantEmployeePositionAccessLevel") =>
         \A x \in RestaurantEmployeePositionAccessLevel :
            (/\ x.position_id = ret.row.position_id
             /\ x.task_type_group_id = ret.row.task_type_group_id
             /\ x.role # ret.row.role) => ret.raised = "IntegrityError"

\* C29 witness: a grant for a (position, task_type_group) that already has
\* one with another role has been refused
C29_Witness ==
    /\ ret.op = "RestaurantEmployeePositionAccessLevel"
    /\ ret.raised = "IntegrityError"
    /\ \E x \in RestaurantEmployeePositionAccessLevel :
         /\ x.position_id = ret.row.position_id
         /\ x.task_type_group_id = ret.row.task_type_group_id
         /\ x.role # ret.row.role

====
